---- MODULE Spec2Model ----
(***************************************************************************)
(* Model of asyncua/common/xmlexporter.py: XmlExporter.build_etree and the *)
(* operations it calls (namespace harvest and remapping, node              *)
(* serialisation, value encoding, alias emission).                         *)
(*                                                                         *)
(* Python lists are modelled as sequences (positions shifted by one),      *)
(* Python dicts as sequences of <<key, value>> pairs in insertion order    *)
(* or, where only lookup matters, as functions.                            *)
(***************************************************************************)
EXTENDS Integers, Sequences, FiniteSets, TLC

\* ------------------------------------------------------------------------
\* Bounds of the model
\* ------------------------------------------------------------------------
NsLen == 3            \* length of the server's namespace array
MaxNodes == 2         \* longest node_list handed to build_etree
MaxUris == 1          \* longest uris list handed to build_etree
MaxAccessLevel == 4   \* largest AccessLevel / UserAccessLevel value read

\* ------------------------------------------------------------------------
\* Generic helpers for Python values
\* ------------------------------------------------------------------------
None == [py |-> "None"]

Range(s) == {s[i] : i \in DOMAIN s}

\* The element of a one-element set (used to name a value computed once).
Only(S) == CHOOSE x \in S : TRUE

\* list.sort() on a list of integers: insertion into a sorted prefix.
RECURSIVE InsertInt(_, _)
InsertInt(x, s) ==
    IF s = <<>> THEN <<x>>
    ELSE IF x < Head(s) THEN <<x>> \o s
    ELSE <<Head(s)>> \o InsertInt(x, Tail(s))

RECURSIVE SortInts(_)
SortInts(s) ==
    IF s = <<>> THEN <<>>
    ELSE InsertInt(s[Len(s)], SortInts(SubSeq(s, 1, Len(s) - 1)))

\* list(d.keys()) of a dict held as a function: the keys in some order.
KeyList(d) ==
    CHOOSE o \in [1..Cardinality(DOMAIN d) -> DOMAIN d] :
        \A i, j \in 1..Cardinality(DOMAIN d) : i # j => o[i] # o[j]

\* dict[key] = value on an insertion-ordered dict.
DictKeys(d) == [i \in DOMAIN d |-> d[i][1]]
DictHas(d, k) == \E i \in DOMAIN d : d[i][1] = k
DictGet(d, k) == d[CHOOSE i \in DOMAIN d : d[i][1] = k][2]
DictSet(d, k, v) ==
    Only({ IF DictHas(dd[1], dd[2])
           THEN [i \in DOMAIN dd[1] |->
                   IF dd[1][i][1] = dd[2] THEN <<dd[2], dd[3]>> ELSE dd[1][i]]
           ELSE Append(dd[1], <<dd[2], dd[3]>>) : dd \in {<<d, k, v>>} })

\* ------------------------------------------------------------------------
\* ua.NodeId, ua.QualifiedName and the static id -> name table
\* ------------------------------------------------------------------------
NodeId(ns, id) == [NamespaceIndex |-> ns, Identifier |-> id]

QualifiedName(ns, name) == [NamespaceIndex |-> ns, Name |-> name]

\* NodeId.to_string(): the namespace prefix is left out for namespace 0.
NodeIdToString(nodeid) ==
    IF nodeid.NamespaceIndex = 0
    THEN "i=" \o ToString(nodeid.Identifier)
    ELSE "ns=" \o ToString(nodeid.NamespaceIndex) \o ";i=" \o ToString(nodeid.Identifier)

\* QualifiedName.to_string()
QualifiedNameToString(bname) ==
    ToString(bname.NamespaceIndex) \o ":" \o bname.Name

\* NodeId.__lt__ for numeric identifiers: namespace index, then identifier.
NodeIdLess(a, b) ==
    \/ a.NamespaceIndex < b.NamespaceIndex
    \/ a.NamespaceIndex = b.NamespaceIndex /\ a.Identifier < b.Identifier

\* ua.ObjectIdNames, the part of the table the model's address space uses.
ObjectIdNames ==
    (1 :> "Boolean") @@ (3 :> "Byte") @@ (6 :> "Int32") @@ (7 :> "UInt32")
    @@ (12 :> "String")
    @@ (17 :> "NodeId") @@ (21 :> "LocalizedText") @@ (22 :> "Structure")
    @@ (24 :> "BaseDataType") @@ (29 :> "Enumeration")
    @@ (35 :> "Organizes") @@ (40 :> "HasTypeDefinition") @@ (45 :> "HasSubtype")
    @@ (46 :> "HasProperty") @@ (47 :> "HasComponent") @@ (296 :> "Argument")

\* ------------------------------------------------------------------------
\* The server's namespace array
\* ------------------------------------------------------------------------
NamespaceUri(i) ==
    IF i = 0 THEN "http://opcfoundation.org/UA/" ELSE "urn:ns" \o ToString(i)

\* server.get_namespace_array(): ns_array[i] in Python is NamespaceArray[i + 1].
NamespaceArray == [p \in 1..NsLen |-> NamespaceUri(p - 1)]

\* list.index(uri): position of the first occurrence, Python (0-based) index.
ListIndex(ns_array, uri) ==
    (CHOOSE p \in DOMAIN ns_array :
        ns_array[p] = uri /\ \A q \in DOMAIN ns_array : ns_array[q] = uri => p <= q) - 1

\* ------------------------------------------------------------------------
\* Namespace remapping: _get_ns_idxs_of_nodes, _add_idxs_from_uris,
\* _make_idx_dict
\* ------------------------------------------------------------------------
\* node_idxs of one node: NodeId, browse name and the target id of each
\* reference, as a set (list(set(node_idxs))).
NodeIdxs(node) ==
    {node.nodeid.NamespaceIndex, node.bname.NamespaceIndex}
        \cup {node.refs[r].NodeId.NamespaceIndex : r \in DOMAIN node.refs}

\* "for i in node_idxs: if i != 0 and i not in idxs: idxs.append(i)" with
\* the elements of the set visited in the order of the sequence order.
RECURSIVE AppendNewIdxs(_, _)
AppendNewIdxs(idxs, order) ==
    IF order = <<>> THEN idxs
    ELSE LET i == Head(order) IN
         AppendNewIdxs(IF i # 0 /\ i \notin Range(idxs) THEN Append(idxs, i) ELSE idxs,
                       Tail(order))

\* The orders in which a Python set can hand out its elements.
SetOrders(S) ==
    {o \in [1..Cardinality(S) -> S] : \A i, j \in DOMAIN o : i # j => o[i] # o[j]}

RECURSIVE _add_idxs_from_uris(_, _, _)
_add_idxs_from_uris(idxs, uris, ns_array) ==
    IF uris = <<>> THEN idxs
    ELSE LET uri == Head(uris) IN
         IF uri \in Range(ns_array)
         THEN LET i == ListIndex(ns_array, uri) IN
              _add_idxs_from_uris(IF i \notin Range(idxs) THEN Append(idxs, i) ELSE idxs,
                                  Tail(uris), ns_array)
         ELSE _add_idxs_from_uris(idxs, Tail(uris), ns_array)

\* The loop of _make_idx_dict over enumerate(idxs); p is xml_idx + 1.
RECURSIVE MakeIdxLoop(_, _, _, _)
MakeIdxLoop(sorted, p, d, len) ==
    IF p > Len(sorted) THEN d
    ELSE IF sorted[p] >= len THEN d
    ELSE MakeIdxLoop(sorted, p + 1,
                     [k \in DOMAIN d \cup {sorted[p]} |->
                        IF k = sorted[p] THEN p ELSE d[k]],
                     len)

_make_idx_dict(idxs, ns_array) ==
    MakeIdxLoop(SortInts(idxs), 1, (0 :> 0), Len(ns_array))

\* ns_to_export of _add_namespaces
NsToExport(addr_idx_to_xml_idx, ns_array) ==
    LET keys == SortInts(KeyList(addr_idx_to_xml_idx))
        kept == SelectSeq(keys, LAMBDA i : i # 0)
    IN  [p \in DOMAIN kept |-> ns_array[kept[p] + 1]]

\* ------------------------------------------------------------------------
\* Python values read from the address space, and XML elements
\* ------------------------------------------------------------------------
PyInt(v) == [py |-> "int", v |-> v]
PyStr(v) == [py |-> "str", v |-> v]
PyBool(v) == [py |-> "bool", v |-> v]
PyNodeId(v) == [py |-> "NodeId", v |-> v]
PyList(items) == [py |-> "list", items |-> items]
\* An object with a ua_types member list: ua_types is the declared list of
\* <<name, type name>> pairs, attrs gives getattr(val, name).
PyStruct(ua_types, attrs) == [py |-> "struct", ua_types |-> ua_types, attrs |-> attrs]

\* str(val)
PyToStr(val) ==
    CASE val.py = "int" -> ToString(val.v)
      [] val.py = "str" -> val.v
      [] val.py = "bool" -> IF val.v THEN "True" ELSE "False"
      [] val.py = "NodeId" -> NodeIdToString(val.v)
      [] OTHER -> val.py

\* bool(val) for the values of the model
PyTruth(val) ==
    CASE val.py = "None" -> FALSE
      [] val.py = "int" -> val.v # 0
      [] val.py = "str" -> val.v # ""
      [] val.py = "bool" -> val.v
      [] val.py = "list" -> val.items # <<>>
      [] OTHER -> TRUE

\* sep.join([str(i) for i in ints])
RECURSIVE JoinInts(_, _)
JoinInts(ints, sep) ==
    IF ints = <<>> THEN ""
    ELSE IF Len(ints) = 1 THEN ToString(ints[1])
    ELSE ToString(ints[1]) \o sep \o JoinInts(Tail(ints), sep)

\* ua.AccessLevel.CurrentRead.mask
CurrentReadMask == 1

\* An Et.Element: attrib is the attribute dict in insertion order, text is
\* <<>> for None and <<s>> for the string s.
Element(tag, attrib, text, children) ==
    [tag |-> tag, attrib |-> attrib, text |-> text, children |-> children]

\* Et.SubElement(el, name) followed by work on the child: el with child added.
AddChild(el, child) == [el EXCEPT !.children = Append(@, child)]

\* _add_sub_el(el, name, text): text is an optional string as above.
_add_sub_el(el, name, text) == AddChild(el, Element(name, <<>>, text, <<>>))

SetAttrib(el, name, value) == [el EXCEPT !.attrib = DictSet(@, name, value)]

\* "if cond: el.attrib[name] = value" and "if cond: self._add_sub_el(...)"
SetAttribIf(cond, el, name, value) == IF cond THEN SetAttrib(el, name, value) ELSE el
AddSubElIf(cond, el, name, text) == IF cond THEN _add_sub_el(el, name, text) ELSE el

\* ------------------------------------------------------------------------
\* Value encoding: _value_to_etree, _val_to_etree, member_to_etree,
\* _extobj_to_etree.  Each operator returns [ok, el]: el is the element
\* after the call, ok is FALSE when the Python code raises.
\* ------------------------------------------------------------------------
Ok(el) == [ok |-> TRUE, el |-> el]
Raised(el) == [ok |-> FALSE, el |-> el]

\* The parent after a child built by a call with result r was added to it.
InChild(parent, r) == [ok |-> r.ok, el |-> AddChild(parent, r.el)]

\* getattr(ua.ObjectIds, vtype): the identifier registered under the name.
HasObjectId(vtype) == \E id \in DOMAIN ObjectIdNames : ObjectIdNames[id] = vtype
ObjectIds(vtype) == CHOOSE id \in DOMAIN ObjectIdNames : ObjectIdNames[id] = vtype

\* get_base_data_type(server.get_node(dtype)).nodeid: built-in types are
\* their own base; the custom types of the modelled address space derive
\* from Enumeration (ns=2;i=3001) and Structure (all others).
get_base_data_type(dtype) ==
    IF dtype.NamespaceIndex = 0 /\ dtype.Identifier <= 30 THEN dtype
    ELSE IF dtype = NodeId(2, 3001) THEN NodeId(0, 29)
    ELSE NodeId(0, 22)

\* vtype.startswith("ListOf") and vtype[6:], on the type names of the model.
StripListOf(vtype) ==
    CASE vtype = "ListOfUInt32" -> "UInt32"
      [] vtype = "ListOfInt32" -> "Int32"
      [] vtype = "ListOfString" -> "String"
      [] OTHER -> vtype

\* The type name of a <<name, vtype>> member, "ListOf" cut when strip.
MemberType(member, strip) == IF strip THEN StripListOf(member[2]) ELSE member[2]

RECURSIVE _value_to_etree(_, _, _, _)
RECURSIVE _val_to_etree(_, _, _)
RECURSIVE member_to_etree(_, _, _, _)
RECURSIVE MembersLoop(_, _, _, _)
RECURSIVE MembersNext(_, _, _, _)
RECURSIVE ValuesLoop(_, _, _, _)
RECURSIVE ValuesNext(_, _, _, _)

\* "for v in val: await self._value_to_etree(el, type_name, dtype, v)"
ValuesLoop(el, type_name, dtype, items) ==
    IF items = <<>> THEN Ok(el)
    ELSE ValuesNext(_value_to_etree(el, type_name, dtype, Head(items)),
                    type_name, dtype, Tail(items))

ValuesNext(r, type_name, dtype, items) ==
    IF r.ok THEN ValuesLoop(r.el, type_name, dtype, items) ELSE r

member_to_etree(el, name, dtype, val) ==
    InChild(el,
            IF val.py = "list"
            THEN IF dtype.Identifier \in DOMAIN ObjectIdNames
                 THEN ValuesLoop(Element("uax:" \o name, <<>>, <<>>, <<>>),
                                 ObjectIdNames[dtype.Identifier], dtype, val.items)
                 ELSE Raised(Element("uax:" \o name, <<>>, <<>>, <<>>))
            ELSE _val_to_etree(Element("uax:" \o name, <<>>, <<>>, <<>>), dtype, val))

\* "for name, vtype in val.ua_types: await self.member_to_etree(...)" over
\* the <<name, vtype>> pairs of members.
MembersLoop(el, val, members, strip) ==
    IF members = <<>> THEN Ok(el)
    ELSE IF ~HasObjectId(MemberType(Head(members), strip)) THEN Raised(el)
    ELSE MembersNext(member_to_etree(el, Head(members)[1],
                                     NodeId(0, ObjectIds(MemberType(Head(members), strip))),
                                     val.attrs[Head(members)[1]]),
                     val, Tail(members), strip)

MembersNext(r, val, members, strip) ==
    IF r.ok THEN MembersLoop(r.el, val, members, strip) ELSE r

\* The ByteString and Guid branches are left out: the modelled address
\* space holds no value of these types.
_val_to_etree(el, dtype, val) ==
    IF dtype = NodeId(0, 17)
    THEN IF val.py = "NodeId"
         THEN Ok(_add_sub_el(el, "uax:Identifier", <<NodeIdToString(val.v)>>))
         ELSE Raised(AddChild(el, Element("uax:Identifier", <<>>, <<>>, <<>>)))
    ELSE IF dtype = NodeId(0, 1)
    THEN Ok([el EXCEPT !.text = <<IF PyTruth(val) THEN "true" ELSE "false">>])
    ELSE IF val.py # "struct"
    THEN IF val.py # "None" THEN Ok([el EXCEPT !.text = <<PyToStr(val)>>]) ELSE Ok(el)
    ELSE MembersLoop(el, val, val.ua_types, FALSE)

\* The loop of _extobj_to_etree over the members of val: the members are
\* visited in the order of val.ua_types, "ListOf" cut from their types.
ExtObjMembers(struct_el, dtype, val) == MembersLoop(struct_el, val, val.ua_types, TRUE)

\* The uax:ExtensionObject element around the struct element built with
\* result r.
ExtensionObject(dtype, r) ==
    [ok |-> r.ok,
     el |-> Element("uax:ExtensionObject", <<>>, <<>>,
                    << _add_sub_el(Element("uax:TypeId", <<>>, <<>>, <<>>),
                                   "uax:Identifier", <<NodeIdToString(dtype)>>),
                       AddChild(Element("uax:Body", <<>>, <<>>, <<>>), r.el) >>)]

_extobj_to_etree(val_el, name, dtype, val) ==
    InChild(val_el,
            ExtensionObject(dtype,
                IF val.py = "struct"
                THEN ExtObjMembers(Element("uax:" \o name, <<>>, <<>>, <<>>), dtype, val)
                ELSE Raised(Element("uax:" \o name, <<>>, <<>>, <<>>))))

\* dtype_base and type_name of _value_to_etree after the Enumeration test.
BaseOf(resolved) == IF resolved = NodeId(0, 29) THEN NodeId(0, 6) ELSE resolved
BaseName(resolved, type_name) ==
    IF resolved = NodeId(0, 29) THEN ObjectIdNames[6] ELSE type_name

\* The scalar branch of _value_to_etree, dtype_base at hand.
ScalarToEtree(el, type_name, dtype, dtype_base, val) ==
    IF dtype_base.NamespaceIndex = 0 /\ dtype_base.Identifier <= 21
    THEN InChild(el, _val_to_etree(
                        Element("uax:" \o ObjectIdNames[dtype_base.Identifier],
                                <<>>, <<>>, <<>>),
                        dtype_base, val))
    ELSE _extobj_to_etree(el, type_name, dtype, val)

_value_to_etree(el, type_name, dtype, val) ==
    IF val.py = "None" THEN Ok(el)
    ELSE IF val.py = "list"
    THEN InChild(el, ValuesLoop(
                        Element(IF dtype.NamespaceIndex = 0 /\ dtype.Identifier <= 21
                                THEN "uax:ListOf" \o type_name
                                ELSE "uax:ListOfExtensionObject",
                                <<>>, <<>>, <<>>),
                        type_name, dtype, val.items))
    ELSE ScalarToEtree(el, BaseName(get_base_data_type(dtype), type_name), dtype,
                       BaseOf(get_base_data_type(dtype)), val)

\* value_to_etree(el, dtype_name, dtype, node)
value_to_etree(el, dtype_name, dtype, node) ==
    IF node.value.py # "None"
    THEN InChild(el, _value_to_etree(Element("Value", <<>>, <<>>, <<>>),
                                     dtype_name, dtype, node.value))
    ELSE Ok(el)

\* XmlExporter.extobj_ordered_elements: its one key, and the order it gives.
OrderedExtObjType == NodeId(0, 296)
extobj_ordered_elements ==
    <<"Name", "DataType", "ValueRank", "ArrayDimensions", "Description">>

\* The member names of val.ua_types, in declared order.
MemberNames(val) == [i \in DOMAIN val.ua_types |-> val.ua_types[i][1]]

\* _get_member_order(dtype, val); no code of the exporter calls it.
_get_member_order(dtype, val) ==
    IF dtype # OrderedExtObjType THEN MemberNames(val)
    ELSE SelectSeq(extobj_ordered_elements,
                   LAMBDA name : /\ name \in Range(MemberNames(val))
                                 /\ val.attrs[name].py # "None")

\* ------------------------------------------------------------------------
\* State of one export run
\* ------------------------------------------------------------------------
VARIABLES
    node_list,             \* build_etree argument: the nodes, as what their reads return
    uris,                  \* build_etree argument: requested namespace uris (<<>>: None or [])
    pc,                    \* position in build_etree
    idxs,                  \* idxs list of _get_ns_idxs_of_nodes / _add_namespaces
    pos,                   \* number of nodes the running loop has finished
    _addr_idx_to_xml_idx,  \* self._addr_idx_to_xml_idx
    aliases,               \* self.aliases, in insertion order
    etree,                 \* children of self.etree.getroot()
    failed                 \* the read that reported an error, <<>> while none has

vars == <<node_list, uris, pc, idxs, pos, _addr_idx_to_xml_idx, aliases, etree, failed>>

\* ------------------------------------------------------------------------
\* Node serialisation
\* ------------------------------------------------------------------------
_node_to_string(nodeid) ==
    IF nodeid.NamespaceIndex \in DOMAIN _addr_idx_to_xml_idx
    THEN NodeIdToString([nodeid EXCEPT
                           !.NamespaceIndex = _addr_idx_to_xml_idx[nodeid.NamespaceIndex]])
    ELSE NodeIdToString(nodeid)

_bname_to_string(bname) ==
    IF bname.NamespaceIndex \in DOMAIN _addr_idx_to_xml_idx
    THEN QualifiedNameToString([bname EXCEPT
                           !.NamespaceIndex = _addr_idx_to_xml_idx[bname.NamespaceIndex]])
    ELSE QualifiedNameToString(bname)

IsHierarchyClass(cls) == cls \in {"Object", "Variable", "Method"}

\* "desc not in (None, '')" after "if desc: desc = desc.Text"
HasDescription(desc) ==
    IF desc.py = "None" THEN FALSE
    ELSE IF desc.Text.py = "None" THEN FALSE
    ELSE desc.Text.v # ""

DescriptionText(desc) == IF HasDescription(desc) THEN <<desc.Text.v>> ELSE <<>>

ParentString(node) ==
    IF node.parent.py # "None" THEN _node_to_string(node.parent.nodeid) ELSE ""

\* The element _add_node_common appends to the root and returns.
_add_node_common(nodetype, node) ==
    AddSubElIf(HasDescription(node.desc),
        _add_sub_el(
            SetAttribIf(node.parent.py # "None" /\ IsHierarchyClass(node.cls),
                Element(nodetype,
                        << <<"NodeId", _node_to_string(node.nodeid)>>,
                           <<"BrowseName", _bname_to_string(node.bname)>> >>,
                        <<>>, <<>>),
                "ParentNodeId", ParentString(node)),
            "DisplayName", <<node.displayname>>),
        "Description", DescriptionText(node.desc))

\* An export under way on one node: the node's element, self.aliases, and
\* ok = FALSE once the code has raised.
Started(el, als) == [ok |-> TRUE, el |-> el, aliases |-> als]

\* ref_name of _add_ref_els
RefName(ref) ==
    IF ref.ReferenceTypeId.Identifier \in DOMAIN ObjectIdNames
    THEN ObjectIdNames[ref.ReferenceTypeId.Identifier]
    ELSE NodeIdToString(ref.ReferenceTypeId)

\* The Reference element of one reference.
RefElement(ref) ==
    SetAttribIf(~ref.IsForward,
                Element("Reference", << <<"ReferenceType", RefName(ref)>> >>,
                        <<_node_to_string(ref.NodeId)>>, <<>>),
                "IsForward", "false")

\* "self.aliases[ref.ReferenceTypeId] = ref_name"
RefAlias(als, ref) == DictSet(als, ref.ReferenceTypeId, RefName(ref))

\* The loop of _add_ref_els: st.el is refs_el.
RECURSIVE RefsLoop(_, _)
RefsLoop(st, refs) ==
    IF refs = <<>> THEN st
    ELSE RefsLoop([st EXCEPT !.el = AddChild(@, RefElement(Head(refs))),
                             !.aliases = RefAlias(@, Head(refs))],
                  Tail(refs))

\* st with the element built in sub hung below st.el, the aliases of sub.
WithChild(st, sub) == [st EXCEPT !.el = AddChild(@, sub.el), !.aliases = sub.aliases]

\* _add_ref_els(parent_el, obj), parent_el being st.el
_add_ref_els(st, obj) ==
    IF st.ok
    THEN WithChild(st, RefsLoop(Started(Element("References", <<>>, <<>>, <<>>),
                                        st.aliases),
                                obj.refs))
    ELSE st

add_etree_object(node, als) ==
    _add_ref_els(
        Started(SetAttribIf(node.event_notifier # 0,
                            _add_node_common("UAObject", node),
                            "EventNotifier", ToString(node.event_notifier)),
                als),
        node)

add_etree_object_type(node, als) ==
    _add_ref_els(
        Started(SetAttribIf(node.is_abstract, _add_node_common("UAObjectType", node),
                            "IsAbstract", "true"),
                als),
        node)

\* Whether add_variable_common registers the data type as an alias.
DtypeIsAliased(dtype) ==
    dtype.NamespaceIndex = 0 /\ dtype.Identifier \in DOMAIN ObjectIdNames

\* dtype_name of add_variable_common
DtypeName(dtype) ==
    IF DtypeIsAliased(dtype) THEN ObjectIdNames[dtype.Identifier]
    ELSE _node_to_string(dtype)

DtypeAlias(als, dtype) ==
    IF DtypeIsAliased(dtype) THEN DictSet(als, dtype, DtypeName(dtype)) ELSE als

\* st after the value encoding with result r ran on st.el.
WithValue(st, r) == [st EXCEPT !.ok = r.ok, !.el = r.el]

\* The last line of add_variable_common.
VariableValue(node, st) ==
    WithValue(st, value_to_etree(st.el, DtypeName(node.dtype), node.dtype, node))

\* add_variable_common(node, el), el being st.el
add_variable_common(node, st) ==
    IF st.ok
    THEN VariableValue(node,
            [st EXCEPT
               !.aliases = DtypeAlias(@, node.dtype),
               !.el = SetAttrib(
                        SetAttribIf(node.dim # <<>>,
                            SetAttribIf(node.rank # -1, @, "ValueRank", ToString(node.rank)),
                            "ArrayDimensions", JoinInts(node.dim, ",")),
                        "DataType", DtypeName(node.dtype))])
    ELSE st

\* Mutant of WritesAccessLevel: only the CurrentRead mask counts as default.
WritesAccessLevelUnlessCurrentRead(level) == level # CurrentReadMask

\* The two access level tests of add_etree_variable.
WritesAccessLevel(level) == level \notin {0, CurrentReadMask}

\* add_etree_variable after add_variable_common.
VariableAttributes(node, st) ==
    IF st.ok
    THEN [st EXCEPT !.el =
            SetAttribIf(node.historizing,
              SetAttribIf(node.min_sampling # 0,
                SetAttribIf(WritesAccessLevel(node.useraccesslevel),
                  SetAttribIf(WritesAccessLevel(node.accesslevel),
                    @, "AccessLevel", ToString(node.accesslevel)),
                  "UserAccessLevel", ToString(node.useraccesslevel)),
                "MinimumSamplingInterval", ToString(node.min_sampling)),
              "Historizing", "true")]
    ELSE st

add_etree_variable(node, als) ==
    VariableAttributes(node,
        add_variable_common(node,
            _add_ref_els(Started(_add_node_common("UAVariable", node), als), node)))

\* add_etree_variable_type after add_variable_common.
VariableTypeAttributes(node, st) ==
    IF st.ok
    THEN [st EXCEPT !.el = SetAttribIf(node.is_abstract, @, "IsAbstract", "true")]
    ELSE st

add_etree_variable_type(node, als) ==
    _add_ref_els(
        VariableTypeAttributes(node,
            add_variable_common(node,
                Started(_add_node_common("UAVariableType", node), als))),
        node)

add_etree_method(node, als) ==
    _add_ref_els(
        Started(SetAttribIf(~node.user_executable,
                    SetAttribIf(~node.executable, _add_node_common("UAMethod", node),
                                "Executable", "false"),
                    "UserExecutable", "false"),
                als),
        node)

HasInverseName(obj) ==
    IF obj.inverse_name.py = "None" THEN FALSE ELSE obj.inverse_name.Text.py # "None"

InverseNameText(obj) == IF HasInverseName(obj) THEN <<obj.inverse_name.Text.v>> ELSE <<>>

\* add_etree_reference_type after _add_ref_els.
InverseName(obj, st) ==
    [st EXCEPT !.el = AddSubElIf(HasInverseName(obj), @, "InverseName", InverseNameText(obj))]

add_etree_reference_type(obj, als) ==
    InverseName(obj,
        _add_ref_els(Started(_add_node_common("UAReferenceType", obj), als), obj))

StructureField(field) ==
    SetAttribIf(field.IsOptional,
      SetAttribIf(field.ArrayDimensions # <<>>,
        SetAttribIf(field.ValueRank # -1,
          Element("Field",
                  << <<"Name", field.Name>>,
                     <<"Datatype", NodeIdToString(field.DataType)>> >>,
                  <<>>, <<>>),
          "ValueRank", ToString(field.ValueRank)),
        "ArrayDimensions", JoinInts(field.ArrayDimensions, ", ")),
      "IsOptional", "true")

RECURSIVE _structure_fields_to_etree(_, _)
_structure_fields_to_etree(sdef_el, fields) ==
    IF fields = <<>> THEN sdef_el
    ELSE _structure_fields_to_etree(AddChild(sdef_el, StructureField(Head(fields))),
                                    Tail(fields))

RECURSIVE _enum_fields_to_etree(_, _)
_enum_fields_to_etree(sdef_el, fields) ==
    IF fields = <<>> THEN sdef_el
    ELSE _enum_fields_to_etree(
            AddChild(sdef_el,
                     Element("Field",
                             << <<"Name", Head(fields).Name>>,
                                <<"Value", ToString(Head(fields).Value)>> >>,
                             <<>>, <<>>)),
            Tail(fields))

\* The Definition child of add_etree_datatype for a definition that is set.
DefinitionElement(sdef_el, sdef) ==
    CASE sdef.py = "StructureDefinition" -> _structure_fields_to_etree(sdef_el, sdef.Fields)
      [] sdef.py = "EnumDefinition" -> _enum_fields_to_etree(sdef_el, sdef.Fields)
      [] OTHER -> sdef_el

\* add_etree_datatype between _add_node_common and _add_ref_els.
WithDefinition(obj_el, obj) ==
    IF obj.definition.py = "None" THEN obj_el
    ELSE AddChild(obj_el,
                  DefinitionElement(
                      Element("Definition", << <<"Name", obj.bname.Name>> >>, <<>>, <<>>),
                      obj.definition))

add_etree_datatype(obj, als) ==
    _add_ref_els(Started(WithDefinition(_add_node_common("UADataType", obj), obj), als),
                 obj)

\* The node classes node_to_etree has a branch for.
ExportedClasses ==
    {"Object", "ObjectType", "Variable", "VariableType", "ReferenceType",
     "DataType", "Method"}

\* The branch node_to_etree takes for a node of an exported class.
Dispatch(node, als) ==
    CASE node.cls = "Object" -> add_etree_object(node, als)
      [] node.cls = "ObjectType" -> add_etree_object_type(node, als)
      [] node.cls = "Variable" -> add_etree_variable(node, als)
      [] node.cls = "VariableType" -> add_etree_variable_type(node, als)
      [] node.cls = "ReferenceType" -> add_etree_reference_type(node, als)
      [] node.cls = "DataType" -> add_etree_datatype(node, als)
      [] node.cls = "Method" -> add_etree_method(node, als)

\* The root and the aliases once the branch has ended with st.
Appended(root, st) == [ok |-> st.ok, etree |-> Append(root, st.el), aliases |-> st.aliases]

\* Mutant of node_to_etree: a node class without a branch raises.
node_to_etree_strict(node) ==
    IF node.cls \in ExportedClasses
    THEN Appended(etree, Dispatch(node, aliases))
    ELSE [ok |-> FALSE, etree |-> etree, aliases |-> aliases]

\* node_to_etree(node) run to its end: [ok, etree, aliases] after the call;
\* ok is FALSE when the value encoding raised.
node_to_etree(node) ==
    IF node.cls \in ExportedClasses
    THEN Appended(etree, Dispatch(node, aliases))
    ELSE [ok |-> TRUE, etree |-> etree, aliases |-> aliases]

\* ------------------------------------------------------------------------
\* Document assembly: _add_namespace_uri_els, _add_alias_els
\* ------------------------------------------------------------------------
\* list.insert(i, x) with a Python index i >= 0.
ListInsert(s, i, x) ==
    LET k == IF i < Len(s) THEN i ELSE Len(s)
    IN  SubSeq(s, 1, k) \o <<x>> \o SubSeq(s, k + 1, Len(s))

RECURSIVE UriEls(_, _)
UriEls(nuris_el, ns_to_export) ==
    IF ns_to_export = <<>> THEN nuris_el
    ELSE UriEls(_add_sub_el(nuris_el, "Uri", <<Head(ns_to_export)>>), Tail(ns_to_export))

\* Position at which the NamespaceUris element is inserted into the root.
NamespaceUrisIndex == 0

_add_namespace_uri_els(root, ns_to_export) ==
    ListInsert(root, NamespaceUrisIndex,
               UriEls(Element("NamespaceUris", <<>>, <<>>, <<>>), ns_to_export))

\* ordered_keys.sort() on a list of NodeIds.
RECURSIVE InsertNodeId(_, _)
InsertNodeId(x, s) ==
    IF s = <<>> THEN <<x>>
    ELSE IF NodeIdLess(x, Head(s)) THEN <<x>> \o s
    ELSE <<Head(s)>> \o InsertNodeId(x, Tail(s))

RECURSIVE SortNodeIds(_)
SortNodeIds(s) ==
    IF s = <<>> THEN <<>>
    ELSE InsertNodeId(s[Len(s)], SortNodeIds(SubSeq(s, 1, Len(s) - 1)))

\* Mutant of OrderedKeys: the keys are left in insertion order.
OrderedKeysUnsorted(als) == DictKeys(als)

\* ordered_keys of _add_alias_els
OrderedKeys(als) == SortNodeIds(DictKeys(als))

RECURSIVE AliasEls(_, _, _)
AliasEls(aliases_el, als, ordered_keys) ==
    IF ordered_keys = <<>> THEN aliases_el
    ELSE LET nodeid == Head(ordered_keys) IN
         AliasEls(AddChild(aliases_el,
                           Element("Alias", << <<"Alias", DictGet(als, nodeid)>> >>,
                                   <<NodeIdToString(nodeid)>>, <<>>)),
                  als, Tail(ordered_keys))

\* Position at which the Aliases element is inserted into the root.
AliasesIndex == 1

\* Mutant of _add_alias_els: the block is inserted in front of the root's
\* children instead of behind the namespace element.
_add_alias_els_in_front(root, als) ==
    ListInsert(root, 0,
               AliasEls(Element("Aliases", <<>>, <<>>, <<>>), als, OrderedKeys(als)))

_add_alias_els(root, als) ==
    ListInsert(root, AliasesIndex,
               AliasEls(Element("Aliases", <<>>, <<>>, <<>>), als, OrderedKeys(als)))

\* ------------------------------------------------------------------------
\* The address space the nodes of the model are taken from
\* ------------------------------------------------------------------------
Reference(reftype, target, forward) ==
    [ReferenceTypeId |-> reftype, NodeId |-> target, IsForward |-> forward]

LocalizedText(text) == [py |-> "LocalizedText", Text |-> text]

ParentNode(nodeid) == [py |-> "Node", nodeid |-> nodeid]

\* What the reads of a node return; the class-specific attributes carry the
\* values an address space reports when they were never written.
Node(nodeid, cls, bname, refs) ==
    [nodeid |-> nodeid, cls |-> cls, bname |-> bname, refs |-> refs,
     displayname |-> bname.Name, desc |-> LocalizedText(None), parent |-> None,
     event_notifier |-> 0, is_abstract |-> FALSE,
     dtype |-> NodeId(0, 24), rank |-> -1, dim |-> <<>>, value |-> None,
     accesslevel |-> CurrentReadMask, useraccesslevel |-> CurrentReadMask,
     min_sampling |-> 0, historizing |-> FALSE,
     executable |-> TRUE, user_executable |-> TRUE,
     inverse_name |-> None, definition |-> None]

\* A namespace index beyond the namespace array.
DanglingIdx == NsLen

PumpSettingsDefinition ==
    [py |-> "StructureDefinition",
     Fields |-> << [Name |-> "Name", DataType |-> NodeId(0, 12), ValueRank |-> -1,
                    ArrayDimensions |-> <<>>, IsOptional |-> FALSE],
                   [Name |-> "Limits", DataType |-> NodeId(0, 6), ValueRank |-> 1,
                    ArrayDimensions |-> <<2>>, IsOptional |-> TRUE] >>]

SpeedVariable ==
    [Node(NodeId(1, 1002), "Variable", QualifiedName(2, "Speed"),
          << Reference(NodeId(0, 47), NodeId(1, 1001), FALSE) >>)
       EXCEPT !.parent = ParentNode(NodeId(1, 1001)), !.dtype = NodeId(0, 6),
              !.value = PyInt(42), !.accesslevel = 3, !.historizing = TRUE]

AddressSpace ==
    { [Node(NodeId(1, 1001), "Object", QualifiedName(1, "Pump"),
            << Reference(NodeId(0, 40), NodeId(0, 58), TRUE),
               Reference(NodeId(0, 35), NodeId(0, 85), FALSE) >>)
         EXCEPT !.parent = ParentNode(NodeId(0, 85)), !.event_notifier = 1,
                !.desc = LocalizedText(PyStr("a pump"))],
      SpeedVariable,
      [Node(NodeId(2, 2001), "Variable", QualifiedName(2, "Mode"),
            << Reference(NodeId(2, 4001), NodeId(1, 1001), TRUE) >>)
         EXCEPT !.dtype = NodeId(2, 3001), !.value = PyInt(1), !.min_sampling = 100],
      [Node(NodeId(1, 1003), "ObjectType", QualifiedName(1, "PumpType"),
            << Reference(NodeId(2, 4001), NodeId(1, 1001), TRUE) >>)
         EXCEPT !.is_abstract = TRUE],
      [Node(NodeId(0, 62), "VariableType", QualifiedName(0, "BaseVariableType"), <<>>)
         EXCEPT !.is_abstract = TRUE, !.rank = -2],
      [Node(NodeId(2, 4001), "ReferenceType", QualifiedName(2, "FeedsInto"),
            << Reference(NodeId(0, 45), NodeId(0, 32), FALSE) >>)
         EXCEPT !.inverse_name = LocalizedText(PyStr("FedBy"))],
      [Node(NodeId(2, 3002), "DataType", QualifiedName(2, "PumpSettings"),
            << Reference(NodeId(0, 45), NodeId(0, 22), FALSE) >>)
         EXCEPT !.definition = PumpSettingsDefinition],
      [Node(NodeId(1, 1004), "Method", QualifiedName(1, "Start"),
            << Reference(NodeId(0, 46), NodeId(DanglingIdx, 5001), TRUE) >>)
         EXCEPT !.parent = ParentNode(NodeId(1, 1001)), !.executable = FALSE],
      Node(NodeId(1, 1005), "View", QualifiedName(1, "Overview"), <<>>),
      Node(NodeId(DanglingIdx, 5001), "Object", QualifiedName(DanglingIdx, "Lost"),
           << Reference(NodeId(1, 35), NodeId(2, 2001), TRUE) >>) }

\* The uris a caller may ask for: those of the namespace array and one the
\* server does not know.
UriPool == Range(NamespaceArray) \cup {"urn:unknown"}

SeqsUpTo(S, n) == UNION {[1..k -> S] : k \in 0..n}

\* ------------------------------------------------------------------------
\* build_etree as a state machine
\* ------------------------------------------------------------------------
\* State of a freshly constructed exporter on which build_etree(nodes, u)
\* has just been called.
Called(nodes, u) ==
    /\ node_list = nodes
    /\ uris = u
    /\ pc = "harvest"
    /\ idxs = <<>>
    /\ pos = 0
    /\ _addr_idx_to_xml_idx = <<>>
    /\ aliases = <<>>
    /\ etree = <<>>
    /\ failed = <<>>

Init ==
    \E nodes \in SeqsUpTo(AddressSpace, MaxNodes), u \in SeqsUpTo(UriPool, MaxUris) :
        Called(nodes, u)

\* Mutant of OnError: the error is swallowed and the loop goes on.
OnErrorSwallowed(at) == at

\* Where build_etree goes when an awaited read raises: nothing on the way
\* up catches the error (the handler of _get_ns_idxs_of_nodes logs and
\* re-raises), so the call ends with the exception.
OnError(at) == "raised"

\* One round of the loop of _get_ns_idxs_of_nodes.
HarvestNode ==
    /\ pc = "harvest"
    /\ pos < Len(node_list)
    /\ \E order \in SetOrders(NodeIdxs(node_list[pos + 1])) :
          idxs' = AppendNewIdxs(idxs, order)
    /\ pos' = pos + 1
    /\ UNCHANGED <<node_list, uris, pc, _addr_idx_to_xml_idx, aliases, etree, failed>>

\* read_browse_name or get_references of the node at hand raises.
HarvestFail ==
    /\ pc = "harvest"
    /\ pos < Len(node_list)
    /\ \E read \in {"read_browse_name", "get_references"} :
          failed' = <<[phase |-> "harvest", pos |-> pos, read |-> read]>>
    /\ pc' = OnError(pc)
    /\ UNCHANGED <<node_list, uris, idxs, pos, _addr_idx_to_xml_idx, aliases, etree>>

\* The rest of _add_namespaces once the harvest loop has ended.
AddNamespaces ==
    /\ pc = "harvest"
    /\ pos = Len(node_list)
    /\ \E ns_array \in {NamespaceArray} :
       \E idxs1 \in {IF uris # <<>> THEN _add_idxs_from_uris(idxs, uris, ns_array)
                     ELSE idxs} :
       \E d \in {_make_idx_dict(idxs1, ns_array)} :
          /\ idxs' = SortInts(idxs1)
          /\ _addr_idx_to_xml_idx' = d
          /\ etree' = _add_namespace_uri_els(etree, NsToExport(d, ns_array))
    /\ pc' = "nodes"
    /\ pos' = 0
    /\ UNCHANGED <<node_list, uris, aliases, failed>>

\* server.get_namespace_array() raises.
NamespaceArrayFail ==
    /\ pc = "harvest"
    /\ pos = Len(node_list)
    /\ failed' = <<[phase |-> "harvest", pos |-> pos, read |-> "get_namespace_array"]>>
    /\ pc' = OnError(pc)
    /\ UNCHANGED <<node_list, uris, idxs, pos, _addr_idx_to_xml_idx, aliases, etree>>

\* node_to_etree(node) for the next node of the list, all reads succeeding.
NodeToEtree ==
    /\ pc = "nodes"
    /\ pos < Len(node_list)
    /\ \E r \in {node_to_etree(node_list[pos + 1])} :
          /\ etree' = r.etree
          /\ aliases' = r.aliases
          /\ pos' = IF r.ok THEN pos + 1 ELSE pos
          /\ pc' = IF r.ok THEN pc ELSE OnError(pc)
    /\ UNCHANGED <<node_list, uris, idxs, _addr_idx_to_xml_idx, failed>>

\* The reads of node_to_etree that can raise, by what the root holds then:
\* read_node_class comes first; the reads of _add_node_common up to
\* read_description come before the element is appended; every later read
\* finds the element appended.
ReadsOf(node) ==
    IF node.cls \in ExportedClasses
    THEN {"read_node_class", "read_description", "read_attribute"}
    ELSE {"read_node_class"}

NodeTag(cls) ==
    CASE cls = "Object" -> "UAObject"
      [] cls = "ObjectType" -> "UAObjectType"
      [] cls = "Variable" -> "UAVariable"
      [] cls = "VariableType" -> "UAVariableType"
      [] cls = "ReferenceType" -> "UAReferenceType"
      [] cls = "DataType" -> "UADataType"
      [] cls = "Method" -> "UAMethod"

\* A read made by node_to_etree raises.  For a read after _add_node_common
\* the root keeps the element as _add_node_common left it.
NodeFail ==
    /\ pc = "nodes"
    /\ pos < Len(node_list)
    /\ \E read \in ReadsOf(node_list[pos + 1]) :
          /\ failed' = <<[phase |-> "nodes", pos |-> pos, read |-> read]>>
          /\ etree' = IF read = "read_attribute"
                      THEN Append(etree, _add_node_common(NodeTag(node_list[pos + 1].cls),
                                                          node_list[pos + 1]))
                      ELSE etree
    /\ pc' = OnError(pc)
    /\ UNCHANGED <<node_list, uris, idxs, pos, _addr_idx_to_xml_idx, aliases>>

\* The end of build_etree: self._add_alias_els().
AddAliasEls ==
    /\ pc = "nodes"
    /\ pos = Len(node_list)
    /\ etree' = _add_alias_els(etree, aliases)
    /\ pc' = "done"
    /\ UNCHANGED <<node_list, uris, idxs, pos, _addr_idx_to_xml_idx, aliases, failed>>

Next ==
    \/ HarvestNode
    \/ HarvestFail
    \/ AddNamespaces
    \/ NamespaceArrayFail
    \/ NodeToEtree
    \/ NodeFail
    \/ AddAliasEls

Spec == Init /\ [][Next]_vars

\* ------------------------------------------------------------------------
\* Vocabulary of the properties
\* ------------------------------------------------------------------------
\* _add_namespaces has run.
Remapped == DOMAIN _addr_idx_to_xml_idx # {}

HasAttrib(el, name) == DictHas(el.attrib, name)
Attrib(el, name) == DictGet(el.attrib, name)

ChildrenTagged(el, tag) == SelectSeq(el.children, LAMBDA c : c.tag = tag)

\* The top-level elements that stand for nodes, and the two blocks.
IsBlock(el) == el.tag \in {"NamespaceUris", "Aliases"}
NodeElements == SelectSeq(etree, LAMBDA el : ~IsBlock(el))
Blocks(tag) == SelectSeq(etree, LAMBDA el : el.tag = tag)

\* The nodes of the list that node_to_etree has a branch for, in list order.
ExportedNodes == SelectSeq(node_list, LAMBDA n : n.cls \in ExportedClasses)

\* Every namespace index a node carries: NodeId, browse name, and the
\* reference-type id and target id of each reference.
CarriedIdxs(node) ==
    {node.nodeid.NamespaceIndex, node.bname.NamespaceIndex}
        \cup {node.refs[r].NodeId.NamespaceIndex : r \in DOMAIN node.refs}
        \cup {node.refs[r].ReferenceTypeId.NamespaceIndex : r \in DOMAIN node.refs}

\* The NodeIds that can become alias keys, to read a NodeId string back.
AliasableIds ==
    UNION {{n.dtype} \cup {n.refs[r].ReferenceTypeId : r \in DOMAIN n.refs} :
           n \in Range(node_list)}
ParseNodeId(str) == CHOOSE id \in AliasableIds : NodeIdToString(id) = str

\* ------------------------------------------------------------------------
\* C1: the index map maps 0 to 0 and its keys one-to-one onto 0..N, the
\* non-zero keys getting 1..N in strictly ascending order of source index.
\* ------------------------------------------------------------------------
C1_IndexMapIsAscendingBijection ==
    Remapped =>
        /\ 0 \in DOMAIN _addr_idx_to_xml_idx
        /\ _addr_idx_to_xml_idx[0] = 0
        /\ {_addr_idx_to_xml_idx[k] : k \in DOMAIN _addr_idx_to_xml_idx}
              = 0..(Cardinality(DOMAIN _addr_idx_to_xml_idx) - 1)
        /\ \A j, k \in DOMAIN _addr_idx_to_xml_idx :
              j < k => _addr_idx_to_xml_idx[j] < _addr_idx_to_xml_idx[k]

\* ------------------------------------------------------------------------
\* C2: after _add_namespaces every non-zero namespace index within the
\* namespace table that occurs in an exported node's NodeId, browse name,
\* or a reference's reference-type id or target id is a key of the map.
\* ------------------------------------------------------------------------
C2_CarriedIdxsAreKeys ==
    Remapped =>
        \A p \in DOMAIN node_list : \A i \in CarriedIdxs(node_list[p]) :
            (i # 0 /\ i < Len(NamespaceArray)) => i \in DOMAIN _addr_idx_to_xml_idx

\* ------------------------------------------------------------------------
\* C3: for every source index i > 0 of the map with export index k, the
\* k-th Uri element of the NamespaceUris block is the table's uri at i.
\* ------------------------------------------------------------------------
C3_UrisInExportIndexOrder ==
    Remapped =>
        \A b \in DOMAIN Blocks("NamespaceUris") :
        \A i \in DOMAIN _addr_idx_to_xml_idx :
            i > 0 =>
              /\ _addr_idx_to_xml_idx[i] \in DOMAIN Blocks("NamespaceUris")[b].children
              /\ Blocks("NamespaceUris")[b].children[_addr_idx_to_xml_idx[i]].text
                    = <<NamespaceArray[i + 1]>>

\* ------------------------------------------------------------------------
\* C4: when build_etree completes, the root's first child is the
\* NamespaceUris block, its second child the Aliases block, and the node
\* elements follow in the order of the node list; the namespace harvest
\* has finished before the first node element exists.
\* ------------------------------------------------------------------------
HarvestFinished ==
    /\ Remapped
    /\ \A p \in DOMAIN node_list : (NodeIdxs(node_list[p]) \ {0}) \subseteq Range(idxs)

C4_DocumentOrder ==
    /\ pc = "done" =>
          /\ Len(etree) = 2 + Len(ExportedNodes)
          /\ etree[1].tag = "NamespaceUris"
          /\ etree[2].tag = "Aliases"
          /\ \A k \in DOMAIN ExportedNodes :
                /\ etree[2 + k].tag = NodeTag(ExportedNodes[k].cls)
                /\ Attrib(etree[2 + k], "NodeId") = _node_to_string(ExportedNodes[k].nodeid)
                /\ Attrib(etree[2 + k], "BrowseName") = _bname_to_string(ExportedNodes[k].bname)
    /\ NodeElements # <<>> => HarvestFinished

C4_Witness ==
    /\ pc = "done"
    /\ Len(ExportedNodes) = 2
    /\ ExportedNodes[1].nodeid # ExportedNodes[2].nodeid
    /\ Len(aliases) > 0

\* ------------------------------------------------------------------------
\* C5: once a collaborator read has failed, build_etree has ended with the
\* error, the loop stands where the read failed (no retry, no later node
\* serialised), and no alias block was added.
\* ------------------------------------------------------------------------
C5_ReadErrorAborts ==
    failed # <<>> =>
        /\ pc = "raised"
        /\ pos = failed[1].pos
        /\ Blocks("Aliases") = <<>>
        /\ failed[1].phase = "harvest" => etree = <<>>
        /\ Len(NodeElements)
              <= Cardinality({p \in DOMAIN node_list :
                                p <= pos + 1 /\ node_list[p].cls \in ExportedClasses})

C5_Witness ==
    /\ failed # <<>>
    /\ failed[1].phase = "nodes"
    /\ failed[1].pos = 0
    /\ Len(ExportedNodes) = 2
    /\ Len(NodeElements) = 1

\* ------------------------------------------------------------------------
\* C6: a run of node_to_etree in which no read fails appends exactly one
\* top-level element for a node of an exported class; for a node of any
\* other class it appends nothing and raises nothing, and the loop goes on
\* to the next node.
\* ------------------------------------------------------------------------
C6_Step ==
    (pc = "nodes" /\ pos < Len(node_list) /\ failed' = failed) =>
        IF node_list[pos + 1].cls \in ExportedClasses
        THEN /\ Len(etree') = Len(etree) + 1
             /\ SubSeq(etree', 1, Len(etree)) = etree
             /\ etree'[Len(etree')].tag = NodeTag(node_list[pos + 1].cls)
        ELSE /\ etree' = etree
             /\ pc' = "nodes"
             /\ pos' = pos + 1

C6_OneElementPerExportedNode == [][C6_Step]_vars

C6_Witness ==
    /\ pc = "done"
    /\ Len(node_list) = 2
    /\ node_list[1].cls \notin ExportedClasses
    /\ node_list[2].cls \in ExportedClasses
    /\ Len(NodeElements) = 1

\* ------------------------------------------------------------------------
\* C7: the emitted Aliases block has no two entries for the same NodeId
\* and its entries are in ascending NodeId order.
\* ------------------------------------------------------------------------
C7_AliasesAscending ==
    \A b \in DOMAIN Blocks("Aliases") :
    \A i, j \in DOMAIN Blocks("Aliases")[b].children :
        i < j => NodeIdLess(ParseNodeId(Blocks("Aliases")[b].children[i].text[1]),
                            ParseNodeId(Blocks("Aliases")[b].children[j].text[1]))

C7_Witness ==
    /\ pc = "done"
    /\ Len(Blocks("Aliases")[1].children) >= 3
    /\ \E i, j \in DOMAIN aliases : i < j /\ NodeIdLess(aliases[j][1], aliases[i][1])
    /\ \E p \in DOMAIN node_list :
          node_list[p].cls = "Variable" /\ DictHas(aliases, node_list[p].dtype)

\* ------------------------------------------------------------------------
\* C8: a reference type whose id is not found in the static id-to-name
\* table is written in string form and gets no alias: only reference types
\* of the table end up in the alias registry.
\* ------------------------------------------------------------------------
C8_OnlyTableIdsAliased ==
    \A i \in DOMAIN aliases : aliases[i][1].Identifier \in DOMAIN ObjectIdNames

\* ------------------------------------------------------------------------
\* Export of one Variable holding a value of the standard Argument type
\* ------------------------------------------------------------------------
\* ua.LocalizedText as a value with members.
LocalizedTextValue(text) ==
    PyStruct(<< <<"Locale", "String">>, <<"Text", "String">> >>,
             [Locale |-> None, Text |-> PyStr(text)])

\* The members ua.Argument declares, as a set: the declared order of a
\* value is one of its orderings.
ArgumentMembers ==
    { <<"Name", "String">>, <<"DataType", "NodeId">>, <<"ValueRank", "Int32">>,
      <<"ArrayDimensions", "ListOfUInt32">>, <<"Description", "LocalizedText">> }

\* An Argument whose members named in absent are None.
ArgumentValue(ua_types, absent) ==
    PyStruct(ua_types,
             [Name |-> IF "Name" \in absent THEN None ELSE PyStr("speed"),
              DataType |-> IF "DataType" \in absent THEN None ELSE PyNodeId(NodeId(0, 6)),
              ValueRank |-> IF "ValueRank" \in absent THEN None ELSE PyInt(1),
              ArrayDimensions |-> IF "ArrayDimensions" \in absent THEN None
                                  ELSE PyList(<<PyInt(2)>>),
              Description |-> IF "Description" \in absent THEN None
                              ELSE LocalizedTextValue("target speed")])

ArgumentVariable(ua_types, absent) ==
    [Node(NodeId(1, 1006), "Variable", QualifiedName(1, "InputArguments"),
          << Reference(NodeId(0, 46), NodeId(1, 1004), FALSE) >>)
       EXCEPT !.dtype = OrderedExtObjType, !.value = ArgumentValue(ua_types, absent)]

InitArgument ==
    \E ua_types \in SetOrders(ArgumentMembers),
       absent \in SUBSET {m[1] : m \in ArgumentMembers} :
        Called(<<ArgumentVariable(ua_types, absent)>>, <<>>)

SpecArgument == InitArgument /\ [][Next]_vars

\* The element of the struct inside the Value child of a node element.
StructElement(node_el) ==
    ChildrenTagged(ChildrenTagged(node_el, "Value")[1],
                   "uax:ExtensionObject")[1].children[2].children[1]

\* ------------------------------------------------------------------------
\* C9: an Argument value is encoded with its members in the order Name,
\* DataType, ValueRank, ArrayDimensions, Description, whatever the order
\* of its declared member list, members whose value is absent left out.
\* ------------------------------------------------------------------------
C9_ArgumentMemberOrder ==
    pc = "done" =>
        \A k \in DOMAIN ExportedNodes :
            (ExportedNodes[k].dtype = OrderedExtObjType
                /\ ExportedNodes[k].value.py = "struct") =>
              [i \in DOMAIN StructElement(NodeElements[k]).children |->
                  StructElement(NodeElements[k]).children[i].tag]
                = [i \in DOMAIN _get_member_order(OrderedExtObjType, ExportedNodes[k].value) |->
                     "uax:" \o _get_member_order(OrderedExtObjType, ExportedNodes[k].value)[i]]

\* ------------------------------------------------------------------------
\* Export of one Variable over the access levels it can report
\* ------------------------------------------------------------------------
InitVariable ==
    \E level, userlevel \in 0..MaxAccessLevel, u \in SeqsUpTo(UriPool, MaxUris) :
        Called(<<[SpeedVariable EXCEPT !.accesslevel = level,
                                       !.useraccesslevel = userlevel]>>, u)

SpecVariable == InitVariable /\ [][Next]_vars

\* name is an attribute of the element exactly when written says so, and
\* then holds the decimal form of level.
AttribIff(el, name, written, level) ==
    /\ HasAttrib(el, name) <=> written
    /\ HasAttrib(el, name) => Attrib(el, name) = ToString(level)

\* ------------------------------------------------------------------------
\* C10 as stated: AccessLevel and UserAccessLevel are written exactly
\* when the level differs from the CurrentRead mask, so a level of 0 is
\* written.
\* ------------------------------------------------------------------------
C10_WrittenUnlessCurrentRead ==
    pc = "done" =>
        \A k \in DOMAIN ExportedNodes :
            ExportedNodes[k].cls = "Variable" =>
              /\ AttribIff(NodeElements[k], "AccessLevel",
                           ExportedNodes[k].accesslevel # CurrentReadMask,
                           ExportedNodes[k].accesslevel)
              /\ AttribIff(NodeElements[k], "UserAccessLevel",
                           ExportedNodes[k].useraccesslevel # CurrentReadMask,
                           ExportedNodes[k].useraccesslevel)

\* ------------------------------------------------------------------------
\* C10 amended: AccessLevel and UserAccessLevel are written exactly when
\* the level is neither 0 nor the CurrentRead mask; a level of 0 is not
\* written.
\* ------------------------------------------------------------------------
C10_WrittenUnlessZeroOrCurrentRead ==
    pc = "done" =>
        \A k \in DOMAIN ExportedNodes :
            ExportedNodes[k].cls = "Variable" =>
              /\ AttribIff(NodeElements[k], "AccessLevel",
                           ExportedNodes[k].accesslevel \notin {0, CurrentReadMask},
                           ExportedNodes[k].accesslevel)
              /\ AttribIff(NodeElements[k], "UserAccessLevel",
                           ExportedNodes[k].useraccesslevel \notin {0, CurrentReadMask},
                           ExportedNodes[k].useraccesslevel)

C10_Witness ==
    /\ pc = "done"
    /\ Len(ExportedNodes) = 1
    /\ ExportedNodes[1].cls = "Variable"
    /\ ExportedNodes[1].accesslevel = 0
    /\ ExportedNodes[1].useraccesslevel \notin {0, CurrentReadMask}
    /\ HasAttrib(NodeElements[1], "UserAccessLevel")
    /\ ~HasAttrib(NodeElements[1], "AccessLevel")

\* ------------------------------------------------------------------------
\* Export of nodes whose data type lives in a namespace no harvested id uses
\* ------------------------------------------------------------------------
\* A Variable of namespace 2 whose data type is a custom type of namespace
\* 1; it has no value, no parent and no reference into namespace 1.
FlowVariable ==
    [Node(NodeId(2, 2002), "Variable", QualifiedName(2, "Flow"),
          << Reference(NodeId(0, 40), NodeId(0, 63), TRUE) >>)
       EXCEPT !.dtype = NodeId(1, 3003)]

DataTypePool ==
    {FlowVariable} \cup {n \in AddressSpace : n.cls \in {"Variable", "ReferenceType"}}

\* The uri of namespace 0 is not asked for.
InitDataType ==
    \E nodes \in SeqsUpTo(DataTypePool, MaxNodes),
       u \in SeqsUpTo(UriPool \ {NamespaceUri(0)}, MaxUris) :
        Called(nodes, u)

SpecDataType == InitDataType /\ [][Next]_vars

\* The namespace index a written NodeId string or browse name string
\* carries, the rest of the string being that of the source id.
WrittenNodeIdNs(str, nodeid) ==
    CHOOSE n \in 0..(NsLen + 1) : NodeIdToString(NodeId(n, nodeid.Identifier)) = str
WrittenBNameNs(str, bname) ==
    CHOOSE n \in 0..(NsLen + 1) : QualifiedNameToString(QualifiedName(n, bname.Name)) = str

\* <<source namespace index, written namespace index>> of every id of node
\* that its element el shows in the form _node_to_string or
\* _bname_to_string gave it: NodeId, BrowseName, ParentNodeId, the targets
\* of the references and a DataType that is not an alias name.
WrittenIdxs(node, el) ==
    { <<node.nodeid.NamespaceIndex, WrittenNodeIdNs(Attrib(el, "NodeId"), node.nodeid)>>,
      <<node.bname.NamespaceIndex, WrittenBNameNs(Attrib(el, "BrowseName"), node.bname)>> }
    \cup { <<node.refs[r].NodeId.NamespaceIndex,
             WrittenNodeIdNs(ChildrenTagged(el, "References")[1].children[r].text[1],
                             node.refs[r].NodeId)>> : r \in DOMAIN node.refs }
    \cup (IF HasAttrib(el, "ParentNodeId")
          THEN { <<node.parent.nodeid.NamespaceIndex,
                   WrittenNodeIdNs(Attrib(el, "ParentNodeId"), node.parent.nodeid)>> }
          ELSE {})
    \cup (IF HasAttrib(el, "DataType") /\ ~DtypeIsAliased(node.dtype)
          THEN { <<node.dtype.NamespaceIndex,
                   WrittenNodeIdNs(Attrib(el, "DataType"), node.dtype)>> }
          ELSE {})

AllWrittenIdxs ==
    UNION {WrittenIdxs(ExportedNodes[k], NodeElements[k]) : k \in DOMAIN ExportedNodes}

\* ------------------------------------------------------------------------
\* C11: in a finished export, two ids whose source namespace indices
\* differ are never written with the same namespace index, ids whose index
\* is no key of the index map (a data-type id, a dangling index) included.
\* ------------------------------------------------------------------------
C11_WrittenIdxInjective ==
    pc = "done" =>
        \A a, b \in AllWrittenIdxs : a[1] # b[1] => a[2] # b[2]

====
